---- MODULE Spec2Model ----
(***************************************************************************)
(* Model of apps/desktop/src-tauri/src/encoder.rs: the H264Encoder frame   *)
(* pacing logic (drop / duplicate / emit), its packet draining and close,  *)
(* the MP3Encoder sample-counter timestamping, and the pixel format        *)
(* adapters uyvy422_frame, yuyv422_frame, nv12_frame and bgra_frame.       *)
(*                                                                         *)
(* Option<T> values are modelled as sequences: None is <<>> and Some(v) is *)
(* <<v>>.  The codec behind send_frame / receive_packet is a FIFO: frames  *)
(* it accepted wait in `held` until `batch` of them are there (batch = 1   *)
(* is an encoder without latency, the tune=zerolatency case), then become  *)
(* packets in `pending`, which receive_packet hands out oldest first and   *)
(* fails on when empty; send_eof flushes `held`.  Failures of send_frame,  *)
(* send_eof and of the container writes are inputs of the actions, at most *)
(* MaxFaults of them in a session.                                         *)
(***************************************************************************)
EXTENDS Integers, Sequences, FiniteSets, TLC

\* ---------------------------------------------------------------- bounds
MaxCalls == 3
MaxFaults == 1
MaxAudioFrames == 3
FpsSet == {20, 30}
BatchSet == {1, 2}
FailableWrites == {1, 2}
Timestamps == {0, 50, 100, 130, 250, 1000}
SampleCounts == {512, 1024, 1152}
MaxDim == 2
\* Video::new pads every row of a plane to a multiple of its buffer
\* alignment (32 bytes in the library, scaled down to the widths here).
AlignSet == {1, 4}

VARIABLES
    fps,            \* H264Encoder.fps, fixed by new()
    batch,          \* frames the codec gathers before it emits packets
    start_time,     \* H264Encoder.start_time : Option<u64>
    last_frame,     \* H264Encoder.last_frame : Option<Video>
    held,           \* frames inside the video codec, not yet packets
    pending,        \* packets the video codec has ready, oldest first
    sent,           \* every context.send_frame call of the video session
    output,         \* every write to the video container
    panicked,       \* a panic unwound out of an H264Encoder method
    closed,         \* close(self) has consumed the H264Encoder
    faults,         \* failures injected so far
    calls,          \* one summary per H264Encoder::encode_frame call
    sample_number,  \* MP3Encoder.sample_number
    a_held,         \* frames inside the audio codec, not yet packets
    a_pending,      \* packets the audio codec has ready
    a_sent,         \* every context.send_frame call of the audio session
    a_output,       \* every write to the audio container
    a_panicked,     \* a panic unwound out of an MP3Encoder method
    buffer,         \* argument of a pixel format adapter: bytes.len(),
                    \* width, height, and the row alignment of Video::new
    built           \* the adapter last applied to buffer and its outcome

vvars == <<start_time, last_frame, held, pending, sent, output, panicked,
           closed, calls>>
avars == <<sample_number, a_held, a_pending, a_sent, a_output, a_panicked>>
pvars == <<buffer, built>>
vars == <<fps, batch, faults, vvars, avars, pvars>>

\* ---------------------------------------------------------------- Option
None == <<>>
Some(v) == <<v>>

Min(a, b) == IF a <= b THEN a ELSE b

\* ------------------------------------------------------- pts computation
\* Pairs <<fps, |delta_time|>>, fps in FpsSet and |delta_time| <= 1000, for
\* which the IEEE-754 double quotient delta_time / (1000.0 / fps) lands one
\* ulp below an exact half-integer (the double 1000.0/30.0 is above 100/3),
\* so that f64::round goes toward zero there instead of away from it.
F64QuotientBelowTie == {<<30, 250>>, <<30, 450>>, <<30, 850>>, <<30, 950>>}

\* f64::round of the nonnegative rational num/den: half away from zero.
RoundHalfUp(num, den) == (2 * num + den) \div (2 * den)

\* (delta_time as f64 / (1000.0 / self.fps)).round() as i64
\* (TargetPtsTruncated: the faulty variant without .round().)
TargetPtsTruncated(delta_time, f) == (delta_time * f) \div 1000
TargetPts(delta_time, f) ==
    LET a == IF delta_time < 0 THEN -delta_time ELSE delta_time
        r == IF <<f, a>> \in F64QuotientBelowTie
               THEN RoundHalfUp(a * f, 1000) - 1
               ELSE RoundHalfUp(a * f, 1000)
    IN IF delta_time < 0 THEN -r ELSE r

\* timestamp - start_time on u64 overflows when timestamp < start_time.
Overflows(timestamp, st) == st # None /\ timestamp < st[1]

\* (timestamp - start_time) as i64 without overflow checks: the u64
\* subtraction wraps modulo 2^64 and the cast reinterprets the bits, which
\* for |timestamp - start_time| < 2^63 is the signed difference.
WrappingDeltaTime(timestamp, st) == timestamp - st

\* "Drop frames that are too old": if pts <= last_frame_pts { return; }
\* (ShouldDropLt: the faulty variant with < for <=.)
ShouldDropLt(pts, last_frame_pts) == pts < last_frame_pts
ShouldDrop(pts, last_frame_pts) == pts <= last_frame_pts

max_duplicate_frames == 5

\* std::cmp::min(pts - last_frame_pts - 1, max_duplicate_frames)
\* (FramesToDuplicateWholeGap: the faulty variant counting the whole gap.)
FramesToDuplicateWholeGap(pts, last_frame_pts) ==
    Min(pts - last_frame_pts, max_duplicate_frames + 1)
FramesToDuplicate(pts, last_frame_pts) ==
    Min(pts - last_frame_pts - 1, max_duplicate_frames)

\* last_frame_pts += 1
\* (NextDuplicatePtsStuck: the faulty variant without the increment.)
NextDuplicatePtsStuck(last_frame_pts) == last_frame_pts
NextDuplicatePts(last_frame_pts) == last_frame_pts + 1

\* frame.set_pts(Some(pts)): the pts the incoming frame is sent with, given
\* its target pts and the pts the duplicate loop stopped at.
\* (CurrentFramePtsAfterDuplicates: the faulty variant numbering the frame
\* after the last duplicate.)
CurrentFramePtsAfterDuplicates(pts, last_frame_pts) == last_frame_pts + 1
CurrentFramePts(pts, last_frame_pts) == pts

\* ------------------------------------------------------------- the codec
\* send_frame returned Ok: the frame is inside the codec.
CodecAccept(h, pts) ==
    LET hl == Append(h.held, pts)
    IN IF Len(hl) >= batch
         THEN [h EXCEPT !.pending = @ \o hl, !.held = <<>>]
         ELSE [h EXCEPT !.held = hl]

\* send_eof returned Ok: everything inside the codec becomes packets.
\* (CodecFlushNothing: the faulty variant of close without send_eof.)
CodecFlushNothing(h) == h
CodecFlush(h) == [h EXCEPT !.pending = @ \o h.held, !.held = <<>>]

\* ------------------------------------------------------- packet draining
\* A failed write_interleaved ends the loop.
\* (StopsDrainNever: the faulty variant without the break.)
StopsDrainNever(ok) == FALSE
StopsDrain(ok) == ~ok

\* The while loop of H264Encoder::receive_and_process_packets.  h.w counts
\* the write_interleaved calls of the running method; the w-th one fails
\* iff w \in wfail (a subset of FailableWrites).  The packet of a failed write is gone: it was taken out
\* of the codec before the write.  frame_pts is the pts of the frame the
\* packet encodes, in the encoder's time base.
RECURSIVE DrainLoop(_, _, _)
DrainLoop(h, wfail, c) ==
    IF h.pending = <<>>
      THEN h
      ELSE LET w  == h.w + 1
               ok == w \notin wfail
               h1 == [h EXCEPT !.pending = Tail(@),
                               !.w = w,
                               !.output = Append(@, [kind |-> "packet",
                                                     frame_pts |-> Head(h.pending),
                                                     ok |-> ok,
                                                     call |-> c,
                                                     drain |-> h.d])]
           IN IF StopsDrain(ok) THEN h1 ELSE DrainLoop(h1, wfail, c)

receive_and_process_packets(h, wfail, c) ==
    DrainLoop([h EXCEPT !.d = @ + 1], wfail, c)

\* self.context.send_frame(..): logged in h.sent with its result, with the
\* number of drains the running method has made so far (d) and the number
\* of packets the codec has ready at that moment (ready).
SendFrame(h, pts, content, dup, ok, c) ==
    LET h1 == [h EXCEPT !.sent = Append(@, [pts |-> pts, content |-> content,
                                            dup |-> dup, ok |-> ok, call |-> c,
                                            d |-> h.d, ready |-> Len(h.pending)])]
    IN IF ok THEN CodecAccept(h1, pts) ELSE h1

\* ------------------------------------------------------- duplicate loop
\* for _ in 0..frames_to_duplicate: i is the iteration (from 1), dupFail
\* (0 = none) the iteration whose send_frame fails.  The result also carries
\* the value last_frame_pts has when the loop is left.
\* (DuplicateLoopUndrained: the faulty variant without the
\* receive_and_process_packets call of line 123.)
RECURSIVE DuplicateLoopUndrained(_, _, _, _, _, _, _)
DuplicateLoopUndrained(h, i, n, last_frame_pts, dupFail, wfail, c) ==
    IF i > n
      THEN [h EXCEPT !.last_frame_pts = last_frame_pts]
      ELSE LET p  == NextDuplicatePts(last_frame_pts)
               ok == i # dupFail
               lf == [h.last_frame[1] EXCEPT !.pts = p]
               h1 == SendFrame([h EXCEPT !.last_frame = Some(lf)],
                               p, lf.content, TRUE, ok, c)
           IN IF ~ok
                THEN [h1 EXCEPT !.last_frame_pts = p]
                ELSE DuplicateLoopUndrained(h1, i + 1, n, p, dupFail, wfail, c)

RECURSIVE DuplicateLoop(_, _, _, _, _, _, _)
DuplicateLoop(h, i, n, last_frame_pts, dupFail, wfail, c) ==
    IF i > n
      THEN [h EXCEPT !.last_frame_pts = last_frame_pts]
      ELSE LET p  == NextDuplicatePts(last_frame_pts)
               ok == i # dupFail
               lf == [h.last_frame[1] EXCEPT !.pts = p]
               h1 == SendFrame([h EXCEPT !.last_frame = Some(lf)],
                               p, lf.content, TRUE, ok, c)
           IN IF ~ok
                THEN [h1 EXCEPT !.last_frame_pts = p]
                ELSE DuplicateLoop(receive_and_process_packets(h1, wfail, c),
                                   i + 1, n, p, dupFail, wfail, c)

\* Lines 131-136: send the frame, keep it as last_frame whatever send_frame
\* returned, drain.  The content of the frame of call c is c.
SubmitFrame(h, pts, frameOk, wfail, c) ==
    LET h1 == SendFrame(h, pts, c, FALSE, frameOk, c)
        h2 == [h1 EXCEPT !.last_frame = Some([pts |-> pts, content |-> c])]
    IN receive_and_process_packets(h2, wfail, c)

\* The fields a method of H264Encoder works on, and its local counters.
Handler == [last_frame |-> last_frame, held |-> held, pending |-> pending,
            sent |-> sent, output |-> output, w |-> 0, d |-> 0,
            last_frame_pts |-> 0]

FailedEntries(log, c) ==
    Cardinality({i \in 1..Len(log) : log[i].call = c /\ ~log[i].ok})

\* Number of failures an action's inputs ask for; kept within the budget.
Requested(dupFail, frameOk, wfail) ==
    (IF dupFail # 0 THEN 1 ELSE 0) + (IF frameOk THEN 0 ELSE 1)
        + Cardinality(wfail)

CallRec(timestamp, kind, target) ==
    [timestamp |-> timestamp, kind |-> kind, target |-> target,
     pre_start_time |-> start_time, pre_last_frame |-> last_frame]

Marker(kind, c) ==
    [kind |-> kind, frame_pts |-> 0, ok |-> TRUE, call |-> c, drain |-> 0]

\* ---------------------------------------------------------------- Init
\* H264Encoder::new: header written, start_time and last_frame None.
\* MP3Encoder::new: sample_number 0, nothing written.
Init ==
    /\ fps \in FpsSet
    /\ batch \in BatchSet
    /\ start_time = None
    /\ last_frame = None
    /\ held = <<>>
    /\ pending = <<>>
    /\ sent = <<>>
    /\ output = <<Marker("header", 0)>>
    /\ panicked = FALSE
    /\ closed = FALSE
    /\ faults = 0
    /\ calls = <<>>
    /\ sample_number = 0
    /\ a_held = <<>>
    /\ a_pending = <<>>
    /\ a_sent = <<>>
    /\ a_output = <<>>
    /\ a_panicked = FALSE
    /\ buffer = [len |-> 0, width |-> 1, height |-> 1, align |-> 1]
    /\ built = None

\* close(mut self) takes the encoder by value: once it was called (or a
\* method panicked) there is no encoder left to call a method on.
\* (UsableAfterClose: the faulty variant with close(&mut self).)
UsableAfterClose == ~panicked
Usable == ~closed /\ ~panicked

\* The handler record h becomes the encoder's state when the method returns.
Commit(h, c) ==
    /\ last_frame' = h.last_frame
    /\ held' = h.held
    /\ pending' = h.pending
    /\ sent' = h.sent
    /\ output' = h.output
    /\ faults' = faults + FailedEntries(h.sent, c) + FailedEntries(h.output, c)

\* The else branch of lines 127-129, taken while last_frame has no pts,
\* only does frame.set_pts(Some(0)): start_time stays as it is.
\* (FirstCallStartTimeSet: the variant that takes start_time from that call.)
FirstCallStartTimeSet(st, timestamp) == Some(timestamp)
FirstCallStartTime(st, timestamp) == st

\* H264Encoder::encode_frame(frame, timestamp).  overflow_checks says
\* whether the build panics on arithmetic overflow (debug profile) or wraps
\* (release profile).
encode_frame(timestamp, overflow_checks, dupFail, frameOk, wfail) ==
    LET c == Len(calls) + 1
    IN
    /\ Usable
    /\ Len(calls) < MaxCalls
    /\ UNCHANGED <<fps, batch, closed, avars, pvars>>
    /\ IF last_frame = None
         THEN /\ Commit(SubmitFrame(Handler, 0, frameOk, wfail, c), c)
              /\ calls' = Append(calls, CallRec(timestamp, "first", 0))
              /\ start_time' = FirstCallStartTime(start_time, timestamp)
              /\ UNCHANGED panicked
         ELSE IF Overflows(timestamp, start_time) /\ overflow_checks
         THEN /\ panicked' = TRUE
              /\ calls' = Append(calls, CallRec(timestamp, "panic", 0))
              /\ UNCHANGED <<start_time, last_frame, held, pending, sent,
                             output, faults>>
         ELSE LET last_frame_pts == last_frame[1].pts
                  delta_time == IF start_time # None
                                  THEN WrappingDeltaTime(timestamp, start_time[1])
                                  ELSE 0
                  pts == TargetPts(delta_time, fps)
              IN /\ start_time' = IF start_time # None THEN start_time
                                                       ELSE Some(timestamp)
                 /\ UNCHANGED panicked
                 /\ IF ShouldDrop(pts, last_frame_pts)
                      THEN /\ calls' = Append(calls, CallRec(timestamp, "drop", pts))
                           /\ UNCHANGED <<last_frame, held, pending, sent,
                                          output, faults>>
                      ELSE LET n  == FramesToDuplicate(pts, last_frame_pts)
                               h1 == DuplicateLoop(Handler, 1, n, last_frame_pts,
                                                   dupFail, wfail, c)
                               p  == CurrentFramePts(pts, h1.last_frame_pts)
                           IN /\ Commit(SubmitFrame(h1, p, frameOk, wfail, c), c)
                              /\ calls' = Append(calls, CallRec(timestamp, "emit", pts))

EncodeFrame ==
    \E timestamp \in Timestamps, overflow_checks \in BOOLEAN,
       dupFail \in 0..max_duplicate_frames, frameOk \in BOOLEAN,
       wfail \in SUBSET FailableWrites :
        /\ Requested(dupFail, frameOk, wfail) <= MaxFaults - faults
        /\ overflow_checks => Overflows(timestamp, start_time)
        /\ encode_frame(timestamp, overflow_checks, dupFail, frameOk, wfail)

\* H264Encoder::close(self): send_eof().unwrap(), drain,
\* write_trailer().unwrap().  self is consumed whatever happens.
close(eofOk, wfail, trailerOk) ==
    LET c  == Len(calls) + 1
        h1 == receive_and_process_packets(CodecFlush(Handler), wfail, c)
    IN
    /\ Usable
    /\ closed' = TRUE
    /\ UNCHANGED <<fps, batch, start_time, last_frame, sent, calls, avars,
                   pvars>>
    /\ IF ~eofOk
         THEN /\ panicked' = TRUE
              /\ faults' = faults + 1
              /\ UNCHANGED <<held, pending, output>>
         ELSE /\ held' = h1.held
              /\ pending' = h1.pending
              /\ panicked' = ~trailerOk
              /\ output' = IF trailerOk
                             THEN Append(h1.output, Marker("trailer", c))
                             ELSE h1.output
              /\ faults' = faults + FailedEntries(h1.output, c)
                                  + (IF trailerOk THEN 0 ELSE 1)

Close ==
    \E eofOk \in BOOLEAN, wfail \in SUBSET FailableWrites,
       trailerOk \in BOOLEAN :
        /\ Requested(0, eofOk, wfail) + (IF trailerOk THEN 0 ELSE 1)
               <= MaxFaults - faults
        /\ close(eofOk, wfail, trailerOk)

Next == EncodeFrame \/ Close

Spec == Init /\ [][Next]_vars
\* ------------------------------------------------------------ MP3Encoder
\* self.sample_number += frame.samples() as i64
\* (AdvanceCursorByOne: the faulty variant counting frames, not samples.)
AdvanceCursorByOne(cursor, samples) == cursor + 1
AdvanceCursor(cursor, samples) == cursor + samples

\* The while loop of MP3Encoder::receive_and_process_packets:
\* encoded.write(..).unwrap() panics on a failed write.
RECURSIVE AudioDrainLoop(_, _, _)
AudioDrainLoop(h, wfail, c) ==
    IF h.pending = <<>>
      THEN h
      ELSE LET w  == h.w + 1
               ok == w \notin wfail
               h1 == [h EXCEPT !.pending = Tail(@),
                               !.w = w,
                               !.output = Append(@, [kind |-> "packet",
                                                     frame_pts |-> Head(h.pending),
                                                     ok |-> ok,
                                                     call |-> c,
                                                     drain |-> 1])]
           IN IF ~ok THEN [h1 EXCEPT !.panicked = TRUE]
                     ELSE AudioDrainLoop(h1, wfail, c)

\* MP3Encoder::encode_frame(frame), frame.samples() = samples.
mp3_encode_frame(samples, sendOk, wfail) ==
    LET c  == Len(a_sent) + 1
        h0 == [held |-> a_held, pending |-> a_pending, output |-> a_output,
               w |-> 0, panicked |-> FALSE]
        h1 == AudioDrainLoop(CodecAccept(h0, sample_number), wfail, c)
    IN
    /\ ~a_panicked
    /\ Len(a_sent) < MaxAudioFrames
    /\ a_sent' = Append(a_sent, [pts |-> sample_number, samples |-> samples,
                                 ok |-> sendOk, call |-> c])
    /\ UNCHANGED <<fps, batch, vvars, pvars>>
    /\ IF ~sendOk
         THEN \* send_frame(&frame).unwrap() panics
              /\ a_panicked' = TRUE
              /\ faults' = faults + 1
              /\ UNCHANGED <<sample_number, a_held, a_pending, a_output>>
         ELSE /\ sample_number' = AdvanceCursor(sample_number, samples)
              /\ a_held' = h1.held
              /\ a_pending' = h1.pending
              /\ a_output' = h1.output
              /\ a_panicked' = h1.panicked
              /\ faults' = faults + FailedEntries(h1.output, c)

Mp3EncodeFrame ==
    \E samples \in SampleCounts, sendOk \in BOOLEAN,
       wfail \in SUBSET FailableWrites :
        /\ Requested(0, sendOk, wfail) <= MaxFaults - faults
        /\ mp3_encode_frame(samples, sendOk, wfail)

NextAudio == Mp3EncodeFrame

SpecAudio == Init /\ [][NextAudio]_vars
\* -------------------------------------------------- pixel format adapters
\* frame.stride(plane): the bytes of a row, padded to the alignment.
Stride(row_bytes, align) == ((row_bytes + align - 1) \div align) * align

\* frame.data_mut(plane).len(): stride times the rows of the plane.
PlaneLen(row_bytes, rows, align) == Stride(row_bytes, align) * rows

Frame(fn, copied) == [fn |-> fn, result |-> "frame", copied |-> copied]
Panic(fn) == [fn |-> fn, result |-> "panic", copied |-> 0]
Absent(fn) == [fn |-> fn, result |-> "none", copied |-> 0]

\* frame.data_mut(0).copy_from_slice(bytes) panics unless both slices have
\* the same length; a packed 4:2:2 row has 2 bytes per pixel.
Packed422Frame(fn, b) ==
    IF b.len = PlaneLen(2 * b.width, b.height, b.align)
      THEN Frame(fn, b.len)
      ELSE Panic(fn)

uyvy422_frame(b) == Packed422Frame("uyvy422_frame", b)

yuyv422_frame(b) == Packed422Frame("yuyv422_frame", b)

\* &bytes[..y_size] and &bytes[y_size..y_size + uv_size] panic when bytes
\* is shorter than the range; the two planes of the frame are never shorter
\* than y_size and uv_size.  Bytes after y_size + uv_size are not looked at.
nv12_frame(b) ==
    LET y_size  == b.width * b.height
        uv_size == y_size \div 2
    IN IF b.len < y_size \/ b.len < y_size + uv_size
         THEN Panic("nv12_frame")
         ELSE Frame("nv12_frame", y_size + uv_size)

\* let expected_size = (width as usize) * (height as usize) * 4
\* (BgraExpectedSize3: the faulty variant with 3 bytes per pixel.)
BgraExpectedSize3(width, height) == width * height * 3
BgraExpectedSize(width, height) == width * height * 4

\* None on a length other than expected_size; otherwise one row of
\* expected_linesize bytes is copied for every pair of a whole source row
\* and a whole destination row.
bgra_frame(b) ==
    LET expected_size     == BgraExpectedSize(b.width, b.height)
        expected_linesize == b.width * 4
        frame_linesize    == Stride(expected_linesize, b.align)
        rows == Min(b.len \div expected_linesize,
                    PlaneLen(expected_linesize, b.height, b.align)
                        \div frame_linesize)
    IN IF b.len # expected_size
         THEN Absent("bgra_frame")
         ELSE Frame("bgra_frame", rows * expected_linesize)

Dims == 1..MaxDim
Buffers == [len : 0..(4 * MaxDim * MaxDim + 1), width : Dims, height : Dims,
            align : AlignSet]

\* An adapter call is given any buffer and any dimensions.
InitAdapters ==
    /\ fps \in FpsSet
    /\ batch \in BatchSet
    /\ start_time = None
    /\ last_frame = None
    /\ held = <<>>
    /\ pending = <<>>
    /\ sent = <<>>
    /\ output = <<Marker("header", 0)>>
    /\ panicked = FALSE
    /\ closed = FALSE
    /\ faults = 0
    /\ calls = <<>>
    /\ sample_number = 0
    /\ a_held = <<>>
    /\ a_pending = <<>>
    /\ a_sent = <<>>
    /\ a_output = <<>>
    /\ a_panicked = FALSE
    /\ buffer \in Buffers
    /\ built = None

Uyvy422Frame ==
    /\ built' = Some(uyvy422_frame(buffer))
    /\ UNCHANGED <<fps, batch, faults, vvars, avars, buffer>>

Yuyv422Frame ==
    /\ built' = Some(yuyv422_frame(buffer))
    /\ UNCHANGED <<fps, batch, faults, vvars, avars, buffer>>

Nv12Frame ==
    /\ built' = Some(nv12_frame(buffer))
    /\ UNCHANGED <<fps, batch, faults, vvars, avars, buffer>>

BgraFrame ==
    /\ built' = Some(bgra_frame(buffer))
    /\ UNCHANGED <<fps, batch, faults, vvars, avars, buffer>>

NextAdapters == Uyvy422Frame \/ Yuyv422Frame \/ Nv12Frame \/ BgraFrame

SpecAdapters == InitAdapters /\ [][NextAdapters]_vars
\* =================================================================
\* Properties
\* =================================================================
SentIdx == 1..Len(sent)
CallIdx == 1..Len(calls)

\* The pts of last_frame when call c began.
LastPtsBefore(c) == calls[c].pre_last_frame[1].pts
\* Call c computed a target pts (it is neither the first call nor a panic).
HasTarget(c) == calls[c].kind \in {"drop", "emit"}
\* The duplicates call c handed to send_frame.
Dups(c) == {i \in SentIdx : sent[i].call = c /\ sent[i].dup}
DupFailed(c) == \E i \in Dups(c) : ~sent[i].ok
\* The sends of the incoming frame of call c.
Frames(c) == {i \in SentIdx : sent[i].call = c /\ ~sent[i].dup}

\* C1: the pts of the frames handed to the codec, real frames and
\* duplicates together, strictly increase in submission order.
C1_PtsStrictlyIncreasing ==
    \A i, j \in SentIdx : i < j => sent[i].pts < sent[j].pts

\* A call that sent duplicates and then its own frame, after an earlier frame.
C1_Witness ==
    \E i, j, k \in SentIdx :
        /\ i < j /\ j < k
        /\ ~sent[i].dup /\ sent[j].dup /\ ~sent[k].dup
        /\ sent[j].call = sent[k].call

\* C2 as stated: every emitting call hands exactly
\* min(target - last_pts - 1, 5) duplicates to the codec.
C2_ExactlyMinDuplicates ==
    \A c \in CallIdx :
        calls[c].kind = "emit" =>
            Cardinality(Dups(c)) = Min(calls[c].target - LastPtsBefore(c) - 1, 5)

\* C2 amended: a call hands at most min(target - last_pts - 1, 5), hence at
\* most 5, duplicates to the codec; exactly that many unless a duplicate's
\* send_frame fails, which ends the loop; a call that does not emit hands
\* over none.
C2_AtMostMinDuplicates ==
    \A c \in CallIdx :
        IF calls[c].kind = "emit"
          THEN LET m == Min(calls[c].target - LastPtsBefore(c) - 1, 5)
               IN /\ Cardinality(Dups(c)) <= m
                  /\ Cardinality(Dups(c)) <= 5
                  /\ ~DupFailed(c) => Cardinality(Dups(c)) = m
          ELSE Dups(c) = {}

\* A gap of more than 6 slots filled with exactly 5 duplicates.
C2_Witness ==
    \E c \in CallIdx :
        /\ calls[c].kind = "emit"
        /\ calls[c].target - LastPtsBefore(c) - 1 > 5
        /\ Cardinality(Dups(c)) = 5
        /\ ~DupFailed(c)

\* C3 as stated: a target 20 slots ahead gives 5 duplicates and the new
\* frame at last pts + 6.
C3_FrameAtLastPlusSix ==
    \A c \in CallIdx :
        (calls[c].kind = "emit" /\ calls[c].target = LastPtsBefore(c) + 20) =>
            /\ Cardinality(Dups(c)) = 5
            /\ \E k \in Frames(c) : sent[k].pts = LastPtsBefore(c) + 6

\* C3 amended: a target 20 slots ahead gives at most 5 duplicates of the
\* previous frame (pts last+1, last+2, ..; all 5 unless a duplicate's
\* send_frame fails), never 19, and then the new frame is sent with its
\* target pts, last pts + 20.
C3_FrameAtTarget ==
    \A c \in CallIdx :
        (calls[c].kind = "emit" /\ calls[c].target = LastPtsBefore(c) + 20) =>
            LET last == LastPtsBefore(c)
                n == Cardinality(Dups(c))
            IN /\ n <= 5
               /\ ~DupFailed(c) => n = 5
               /\ {sent[i].pts : i \in Dups(c)} = (last + 1)..(last + n)
               /\ \A i \in Dups(c) :
                      sent[i].content = calls[c].pre_last_frame[1].content
               /\ \E k \in Frames(c) :
                      /\ Frames(c) = {k}
                      /\ sent[k].pts = last + 20
                      /\ sent[k].content = c
                      /\ \A i \in Dups(c) : i < k

\* A call 20 slots ahead that sent 5 duplicates and then its frame.
C3_Witness ==
    \E c \in CallIdx :
        /\ calls[c].kind = "emit"
        /\ calls[c].target = LastPtsBefore(c) + 20
        /\ Cardinality(Dups(c)) = 5
        /\ \E k \in Frames(c) : sent[k].pts = calls[c].target
\* The timestamps of the calls so far are 1000/fps ms apart, 1000/fps being
\* a whole number of milliseconds.
EvenlySpaced ==
    /\ 1000 % fps = 0
    /\ \A k \in CallIdx :
           calls[k].timestamp = calls[1].timestamp + (k - 1) * (1000 \div fps)

\* C4: frames of a fresh encoder whose timestamps are exactly 1000/fps ms
\* apart are all emitted, the n-th (from 0) with pts n, none dropped and
\* none duplicated (no send or write failing).
C4_EvenlySpacedAllEmitted ==
    (EvenlySpaced /\ faults = 0) =>
        /\ Len(sent) = Len(calls)
        /\ \A k \in SentIdx :
               sent[k].pts = k - 1 /\ sent[k].content = k /\ ~sent[k].dup

\* C5: start_time is set once, to the capture timestamp of the first
\* encode_frame call, and never changes afterwards.
C5_StartTimeIsFirstTimestamp ==
    calls # <<>> => start_time = Some(calls[1].timestamp)

\* C6: at 30 fps, a first frame at 0 ms and a second at 1000 ms give the
\* first frame at pts 0, 5 duplicates of it at pts 1..5 and the second
\* frame at pts 6 (no send or write failing).
C6_SecondFrameAtSix ==
    (/\ fps = 30 /\ faults = 0 /\ Len(calls) = 2
     /\ calls[1].timestamp = 0 /\ calls[2].timestamp = 1000) =>
        /\ Len(sent) = 7
        /\ \A k \in SentIdx : sent[k].pts = k - 1
        /\ \A k \in 1..6 : sent[k].content = 1 /\ (sent[k].dup <=> k > 1)
        /\ sent[7].content = 2 /\ ~sent[7].dup

\* C7: a call whose target pts is at most the pts of the last frame hands
\* nothing to the codec and writes nothing; when the target equals the last
\* pts, that slot has exactly one frame, sent by an earlier call.
C7_DropSubmitsNothing ==
    \A c \in CallIdx :
        (HasTarget(c) /\ calls[c].target <= LastPtsBefore(c)) =>
            /\ \A i \in SentIdx : sent[i].call # c
            /\ \A i \in 1..Len(output) : output[i].call # c
            /\ calls[c].target = LastPtsBefore(c) =>
                   \E i \in SentIdx :
                       /\ sent[i].call < c /\ ~sent[i].dup
                       /\ {j \in SentIdx : sent[j].pts = calls[c].target} = {i}

\* A call after start_time was fixed whose target is the slot of the last
\* frame.
C7_Witness ==
    \E c \in CallIdx :
        /\ HasTarget(c)
        /\ calls[c].pre_start_time # None
        /\ calls[c].target = LastPtsBefore(c)
        /\ \A i \in SentIdx : sent[i].call # c

\* C8: a call that drops its frame leaves start_time and last_frame (and
\* its pts) as they were before the call.
C8_DropLeavesStateUnchanged ==
    LET c == Len(calls)
    IN (c >= 1 /\ calls[c].kind = "drop") =>
           /\ start_time = calls[c].pre_start_time
           /\ last_frame = calls[c].pre_last_frame
\* Sample counts of the audio frames before the k-th.
RECURSIVE SamplesBefore(_)
SamplesBefore(k) ==
    IF k <= 1 THEN 0 ELSE SamplesBefore(k - 1) + a_sent[k - 1].samples

C9_PtsIsSampleSum ==
    /\ \A k \in 1..Len(a_sent) : a_sent[k].pts = SamplesBefore(k)
    /\ ([k \in 1..Len(a_sent) |-> a_sent[k].samples] = <<1024, 1024, 512>>) =>
           [k \in 1..Len(a_sent) |-> a_sent[k].pts] = <<0, 1024, 2048>>

\* C9: the pts of the k-th audio frame is the sum of the sample counts of
\* the frames before it (sizes 1024, 1024, 512 get pts 0, 1024, 2048), and
\* the sample cursor never decreases.
C9_AudioPtsFromSampleCount ==
    []C9_PtsIsSampleSum /\ [][sample_number' >= sample_number]_vars

\* Frames of 1024, 1024 and 512 samples were sent, at pts 0, 1024, 2048.
C9_Witness ==
    /\ Len(a_sent) = 3
    /\ a_sent[1].samples = 1024 /\ a_sent[2].samples = 1024
    /\ a_sent[3].samples = 512
    /\ a_sent[3].pts = 2048 /\ a_sent[3].ok
    /\ sample_number = 2560

\* Failed packet writes of encode_frame calls (not of close).
FailedEncodeWrites ==
    {i \in 1..Len(output) :
        output[i].kind = "packet" /\ ~output[i].ok /\ output[i].call <= Len(calls)}

\* C10: a failed packet write in an encode_frame call ends that drain loop
\* (nothing more is written by it), aborts nothing (no panic; the call's
\* frame stays sent and is last_frame), and the next encode_frame call is
\* taken and works on that last_frame.
C10_WriteFailureDegrades ==
    \A i \in FailedEncodeWrites :
        LET c == output[i].call
        IN /\ \A j \in (i + 1)..Len(output) :
                  ~(output[j].call = c /\ output[j].drain = output[i].drain)
           /\ calls[c].kind \in {"first", "emit"}
           /\ \E k \in Frames(c) : sent[k].pts = calls[c].target
           /\ (c = Len(calls) /\ ~closed) =>
                  /\ ~panicked
                  /\ last_frame = Some([pts |-> calls[c].target, content |-> c])
                  /\ Len(calls) < MaxCalls => ENABLED EncodeFrame
           /\ c < Len(calls) =>
                  calls[c + 1].pre_last_frame =
                      Some([pts |-> calls[c].target, content |-> c])

\* A write failed while the codec had a second packet ready: the drain left
\* it in the codec, the call went on, its next drain wrote that packet, and
\* the call's frame is last_frame.
C10_Witness ==
    \E i \in FailedEncodeWrites :
        LET c == output[i].call
        IN /\ batch = 2
           /\ i < Len(output)
           /\ output[i + 1].call = c
           /\ output[i + 1].drain > output[i].drain
           /\ output[i + 1].ok
           /\ c = Len(calls) /\ ~closed /\ ~panicked
           /\ last_frame = Some([pts |-> calls[c].target, content |-> c])
\* Failed packet writes of MP3Encoder::encode_frame calls.
FailedAudioWrites ==
    {i \in 1..Len(a_output) : a_output[i].kind = "packet" /\ ~a_output[i].ok}

\* C11: a failed packet write in an MP3Encoder::encode_frame call only ends
\* that call's drain loop, as in the video encoder: nothing is aborted and
\* the encoder takes the next frame.
C11_AudioWriteFailureDegrades ==
    \A i \in FailedAudioWrites :
        /\ ~a_panicked
        /\ \A j \in (i + 1)..Len(a_output) : a_output[j].call # a_output[i].call
\* C14: MP3Encoder::new has written the container header, so every audio
\* packet written follows a header in the audio output.
C14_AudioHeaderBeforePackets ==
    \A i \in 1..Len(a_output) :
        a_output[i].kind = "packet" =>
            \E j \in 1..(i - 1) : a_output[j].kind = "header"

OutIdx == 1..Len(output)
Trailers == {i \in OutIdx : output[i].kind = "trailer"}
\* The entries close wrote while draining (close is not logged in calls).
ClosePackets ==
    {i \in OutIdx : output[i].kind = "packet" /\ output[i].call = Len(calls) + 1}
\* The pts of the frames the codec still held when close began: accepted,
\* and not taken out of the codec by a drain of an encode_frame call.
HeldAtClose ==
    {sent[i].pts : i \in {k \in SentIdx : sent[k].ok}}
        \ {output[i].frame_pts :
              i \in {k \in OutIdx : output[k].kind = "packet"
                                      /\ output[k].call <= Len(calls)}}

\* C12 as stated: close signals end of stream, writes every packet the
\* codec still holds and then writes the trailer: one trailer, after all of
\* those packets have been written.
C12_TrailerAfterAllPackets ==
    Trailers # {} =>
        /\ Trailers = {Len(output)}
        /\ \A p \in HeldAtClose :
               \E i \in ClosePackets : output[i].frame_pts = p /\ output[i].ok

\* C12 amended: a close that returns has signalled end of stream, drained
\* the codec in order until it was empty or a packet write failed (that
\* write is the last one; the packets after it are never written), and then
\* written the trailer, once and as the last write of the session.  A close
\* whose send_eof or write_trailer fails panics, and an encoder that was
\* not closed has no trailer.
C12_CloseOrder ==
    /\ (closed /\ ~panicked) =>
           /\ Trailers = {Len(output)}
           /\ \A i, j \in ClosePackets :
                  i < j => output[i].frame_pts < output[j].frame_pts /\ output[i].ok
           /\ {output[i].frame_pts : i \in ClosePackets} \subseteq HeldAtClose
           /\ (\A i \in ClosePackets : output[i].ok) =>
                  /\ HeldAtClose = {output[i].frame_pts : i \in ClosePackets}
                  /\ held = <<>> /\ pending = <<>>
    /\ (~closed \/ panicked) => Trailers = {}

\* A close that flushed a frame out of the codec, wrote its packet and then
\* the trailer.
C12_Witness ==
    /\ closed /\ ~panicked
    /\ \E i \in ClosePackets : output[i].ok /\ i = Len(output) - 1
    /\ HeldAtClose # {}
    /\ output[Len(output)].kind = "trailer"

\* C13: a closed encoder is terminal: no encode_frame and no second close
\* takes effect on it, so no frame is sent and nothing is written after the
\* trailer.
C13_ClosedIsTerminal ==
    /\ [][closed => (closed' /\ sent' = sent /\ output' = output
                       /\ calls' = calls /\ last_frame' = last_frame)]_vars
    /\ [](\A i \in Trailers : i = Len(output))

\* A closed encoder with its trailer written, before the call bound.
C13_Witness ==
    /\ closed /\ ~panicked
    /\ Len(calls) >= 1 /\ Len(calls) < MaxCalls
    /\ Trailers = {Len(output)}
\* The capture timestamp of the frame that was last_frame when call c began.
LastTimestampBefore(c) == calls[calls[c].pre_last_frame[1].content].timestamp

\* C15: a call whose capture timestamp is not after that of the last frame
\* sent, or is smaller than start_time, returns normally having dropped its
\* frame: nothing is handed to the codec and nothing is written.
C15_OutOfOrderTolerated ==
    \A c \in CallIdx :
        (/\ calls[c].pre_last_frame # None
         /\ \/ calls[c].timestamp <= LastTimestampBefore(c)
            \/ /\ calls[c].pre_start_time # None
               /\ calls[c].timestamp < calls[c].pre_start_time[1]) =>
            /\ calls[c].kind = "drop"
            /\ \A i \in SentIdx : sent[i].call # c
            /\ \A i \in OutIdx : output[i].call # c
\* The sends of call c, duplicates and frame, and those before the i-th.
Sends(c) == {i \in SentIdx : sent[i].call = c}
SendsBefore(c, i) == {k \in Sends(c) : k < i}
\* Call c filled a gap: it sent at least one duplicate.
GapFilling(c) == calls[c].kind = "emit" /\ Dups(c) # {}

\* Duplicates have pts last+1, last+2, .. in the order sent and the content
\* of the previous frame, and the frame of the call follows them; a drain
\* ran after each send the codec accepted, before the next send.
DuplicatesInSequence(c) ==
    /\ \A i \in Dups(c) :
           /\ sent[i].pts = LastPtsBefore(c) + Cardinality(SendsBefore(c, i)) + 1
           /\ sent[i].content = calls[c].pre_last_frame[1].content
           /\ sent[i].content # c
    /\ \A i \in Frames(c) : \A k \in Dups(c) : k < i
    /\ \A i \in Sends(c) :
           sent[i].d = Cardinality({k \in SendsBefore(c, i) : sent[k].ok})

\* C18 as stated: in a gap-filling call the duplicates are sent with pts
\* last+1, last+2, .. and the previous frame's content, and the packets of
\* each duplicate are drained and written before the next duplicate and
\* before the frame of the call is sent: at each send of the call that
\* follows a drain the codec has no packet ready and no write of the call
\* has failed.
C18_DuplicatesDrainedBeforeNext ==
    \A c \in CallIdx :
        GapFilling(c) =>
            /\ DuplicatesInSequence(c)
            /\ \A i \in Sends(c) :
                   sent[i].d > 0 =>
                       /\ sent[i].ready = 0
                       /\ \A o \in OutIdx :
                              (output[o].call = c /\ output[o].drain <= sent[i].d)
                                  => output[o].ok

\* C18 amended: in a gap-filling call the duplicates are sent with pts
\* last+1, last+2, .. and the previous frame's content; after each accepted
\* duplicate a drain runs before the next send, writing the packets the
\* codec has ready; only a failed write, which ends that drain, leaves a
\* ready packet in the codec when the next duplicate or the frame is sent.
C18_DuplicatesThenDrain ==
    \A c \in CallIdx :
        GapFilling(c) =>
            /\ DuplicatesInSequence(c)
            /\ \A i \in Sends(c) :
                   (sent[i].d > 0 /\ sent[i].ready > 0) =>
                       \E o \in OutIdx :
                           /\ output[o].call = c /\ ~output[o].ok
                           /\ output[o].drain = sent[i].d

\* A call that sent at least two duplicates, the packet of each written by
\* the drain that followed it, and then its own frame.
C18_Witness ==
    \E c \in CallIdx :
        /\ GapFilling(c)
        /\ Cardinality(Dups(c)) >= 2
        /\ Frames(c) # {}
        /\ \A i \in Dups(c) :
               \E o \in OutIdx :
                   /\ output[o].call = c /\ output[o].ok
                   /\ output[o].frame_pts = sent[i].pts
                   /\ output[o].drain = sent[i].d + 1
\* capture timestamp - start_time of a call that emitted after the first.
DeltaOf(c) == calls[c].timestamp - calls[c].pre_start_time[1]
\* k * fps / 1000 lies exactly half way between two frame slots.
IsTie(c) == (2 * DeltaOf(c) * fps) % 2000 = 1000
\* The nearest slot, the farther one from zero at a tie.
RoundedAway(c) == (2 * DeltaOf(c) * fps + 1000) \div 2000

\* C19 as stated: every frame emitted after the first has
\* pts = round((timestamp - start_time) * fps / 1000), the nearest slot,
\* ties away from zero, whatever was dropped or duplicated before.
C19_PtsIsRoundedSlot ==
    \A c \in CallIdx :
        calls[c].kind = "emit" =>
            /\ calls[c].pre_start_time # None
            /\ DeltaOf(c) >= 0
            /\ \A i \in Frames(c) : sent[i].pts = RoundedAway(c)

\* C19 amended: every frame emitted after the first has as pts a frame
\* slot nearest to (timestamp - start_time) * fps / 1000, whatever was
\* dropped or duplicated before; at an exact tie it is the slot away from
\* zero, except where the double quotient delta / (1000.0 / fps) falls
\* below the tie (30 fps: 250, 450, 850, 950 ms), where it is the slot
\* toward zero.
C19_PtsIsNearestSlot ==
    \A c \in CallIdx :
        calls[c].kind = "emit" =>
            /\ calls[c].pre_start_time # None
            /\ DeltaOf(c) >= 0
            /\ Frames(c) # {}
            /\ \A i \in Frames(c) :
                   LET p == sent[i].pts
                       e == 1000 * p - DeltaOf(c) * fps
                   IN /\ -500 <= e /\ e <= 500
                      /\ IsTie(c) =>
                             p = IF <<fps, DeltaOf(c)>> \in F64QuotientBelowTie
                                   THEN RoundedAway(c) - 1
                                   ELSE RoundedAway(c)

\* A frame emitted after the first whose timestamp is at an exact tie,
\* sent with the slot away from zero.
C19_Witness ==
    \E c \in CallIdx :
        /\ calls[c].kind = "emit" /\ IsTie(c)
        /\ \E i \in Frames(c) :
               /\ sent[i].ok
               /\ sent[i].pts = RoundedAway(c)
               /\ 2 * sent[i].pts * 1000 = 2 * DeltaOf(c) * fps + 1000
\* C20: last_frame is only ever a frame whose send_frame succeeded: a frame
\* the codec refused is not kept, so it is neither the pts later calls are
\* compared with nor the frame later duplicates are made of.
C20_LastFrameWasEmitted ==
    /\ last_frame # None =>
           \E i \in SentIdx :
               /\ ~sent[i].dup /\ sent[i].ok
               /\ sent[i].content = last_frame[1].content
               /\ sent[i].pts = last_frame[1].pts
    /\ \A i \in SentIdx :
           sent[i].dup =>
               \E k \in 1..(i - 1) :
                   ~sent[k].dup /\ sent[k].ok /\ sent[k].content = sent[i].content
\* The adapter fn was applied to buffer.
Applied(fn) == built # None /\ built[1].fn = fn

\* C16: bgra_frame returns None, having copied nothing, whenever the
\* buffer length differs from width*height*4, and returns a frame (all
\* width*height*4 bytes copied) only when the length is exactly that.
C16_BgraLengthChecked ==
    Applied("bgra_frame") =>
        LET size == buffer.width * buffer.height * 4
        IN /\ buffer.len # size =>
                  built[1].result = "none" /\ built[1].copied = 0
           /\ built[1].result = "frame" =>
                  buffer.len = size /\ built[1].copied = size
           /\ built[1].result # "panic"

\* bgra_frame applied to a buffer one byte short returned None.
C16_Witness ==
    /\ Applied("bgra_frame")
    /\ buffer.len = buffer.width * buffer.height * 4 - 1
    /\ built[1].result = "none"
    /\ built[1].copied = 0

\* The buffer length the layout of each adapter needs for width x height.
LayoutSize(fn) ==
    LET px == buffer.width * buffer.height
    IN CASE fn \in {"uyvy422_frame", "yuyv422_frame"} -> 2 * px
         [] fn = "nv12_frame" -> px + px \div 2
         [] fn = "bgra_frame" -> 4 * px

\* C17: every adapter given a buffer whose length is wrong for the
\* dimensions and its layout returns an empty result: it does not panic
\* and builds no frame.
C17_WrongSizeRejected ==
    \A fn \in {"uyvy422_frame", "yuyv422_frame", "nv12_frame", "bgra_frame"} :
        (Applied(fn) /\ buffer.len # LayoutSize(fn)) =>
            built[1].result = "none" /\ built[1].copied = 0
\* C21: the second encode_frame call on a fresh encoder emits nothing,
\* whatever its timestamp: it finds start_time unset and the first frame as
\* last_frame with pts 0, sets start_time to its own timestamp, gets target
\* pts 0 and drops its frame, so nothing is sent or written by it and
\* last_frame stays the first frame.
C21_SecondCallNeverEmits ==
    Len(calls) >= 2 =>
        /\ calls[2].pre_start_time = None
        /\ calls[2].pre_last_frame = Some([pts |-> 0, content |-> 1])
        /\ calls[2].kind = "drop"
        /\ calls[2].target = 0
        /\ start_time = Some(calls[2].timestamp)
        /\ \A i \in SentIdx : sent[i].call # 2
        /\ \A i \in OutIdx : output[i].call # 2
        /\ Len(calls) = 2 => last_frame = Some([pts |-> 0, content |-> 1])

\* A second call a full second after the first, dropped all the same.
C21_Witness ==
    /\ Len(calls) = 2
    /\ calls[1].timestamp = 0 /\ calls[2].timestamp = 1000
    /\ calls[2].kind = "drop"
    /\ start_time = Some(1000)
    /\ Len(sent) = 1 /\ sent[1].ok
====
